---- MODULE Spec2Model ----
(***************************************************************************)
(* Model of deepwork.py: the DeepWorkTracker class (a ledger of sessions   *)
(* and goals kept in memory and written to one JSON file) and main(), the  *)
(* command-line dispatcher.                                                *)
(*                                                                         *)
(* Time is counted in minutes since a Monday 00:00.  Durations are kept in *)
(* hundredths of an hour, the resolution round(x, 2) leaves.  The floating *)
(* point sums of get_summary are sums of such two-decimal values, so they  *)
(* are modelled by the exact integer sums.                                 *)
(***************************************************************************)
EXTENDS Integers, Sequences, FiniteSets, TLC

\* ---- bounds of the model ----
MaxDay == 7
MaxSessions == 1

\* ---- calendar ----
MinutesPerHour == 60
HoursPerDay == 24
DaysPerWeek == 7
MinutesPerDay == MinutesPerHour * HoursPerDay

\* The first day of the model is the Sunday of the first week, so that the
\* clock crosses a week boundary (Monday, day 7).
FirstDay == DaysPerWeek - 1
FirstInstant == FirstDay * MinutesPerDay
Offsets == {0, 100}
Instants ==
  {FirstInstant + o : o \in Offsets}
    \cup {d * MinutesPerDay : d \in (FirstDay + 1)..MaxDay}

Categories == {"focus", "break"}
Hours == {0, 2}
Descriptions == {"draft"}
Periods == {"daily", "weekly", "all"}
Commands == {"start", "end", "list", "total", "summary", "export",
             "pomodoro", "set_goal", "track_goals", "score", "visualize"}
NoArg == "-"
CommandArgs(action) ==
  IF action \in {"start", "set_goal"} THEN Categories ELSE {NoArg}

\* ---- timestamps ----
\* datetime.isoformat(): the string of an instant, kept as its date and its
\* time of day.  BadStamp is a string fromisoformat() rejects.
BadStamp == [date |-> -1, tod |-> -1]
IsoFormat(t) == [date |-> t \div MinutesPerDay, tod |-> t % MinutesPerDay]
Parseable(s) == s.date >= 0 /\ s.tod >= 0 /\ s.tod < MinutesPerDay
FromIsoFormat(s) == s.date * MinutesPerDay + s.tod
DateOf(t) == t \div MinutesPerDay
Weekday(d) == d % DaysPerWeek
\* The start_time arguments end_session is called with: an instant later
\* the same day, the next midnight, and a string that is no timestamp.
StartArgs ==
  {IsoFormat(FirstInstant + 100), IsoFormat(FirstInstant + MinutesPerDay), BadStamp}

\* round(n / d, 0) for d > 0, to the nearest integer, symmetric around 0
\* (no quotient of the model lies exactly half way).
RoundDiv(n, d) ==
  IF n >= 0 THEN (2 * n + d) \div (2 * d) ELSE -((2 * (-n) + d) \div (2 * d))

\* round(total_seconds() / 3600, 2), in hundredths of an hour.
Duration(startT, endT) == RoundDiv((endT - startT) * 100, MinutesPerHour)

\* ---- the ledger ----
EmptyLedger == [sessions |-> <<>>, goals |-> {}]

\* A python dict is a set of <<key, value>> entries; d[k] = v replaces the
\* entry of k.
DictSetKeepOld(d, k, v) == d \cup {<<k, v>>}
DictSet(d, k, v) == {p \in d : p[1] # k} \cup {<<k, v>>}
DictKeys(d) == {p[1] : p \in d}
DictGet(d, k, default) ==
  IF k \in DictKeys(d) THEN (CHOOSE p \in d : p[1] = k)[2] ELSE default

\* ---- the backing file ----
AbsentFile == [kind |-> "absent", doc |-> EmptyLedger]
TruncatedFile == [kind |-> "empty", doc |-> EmptyLedger]
JsonFile(l) == [kind |-> "json", doc |-> l]

\* A ledger document already in the file: one completed session and one goal.
OldSession ==
  [start_time |-> IsoFormat(FirstInstant - 100),
   end_time |-> IsoFormat(FirstInstant),
   duration |-> Duration(FirstInstant - 100, FirstInstant),
   category |-> "focus",
   description |-> "draft"]
OldLedger == [sessions |-> <<OldSession>>, goals |-> {<<"focus", 2>>}]
InitFiles == {AbsentFile, JsonFile(OldLedger)}

VARIABLES
  file,       \* the file deep_work_data.json
  tracker,    \* the DeepWorkTracker object: [live, data]
  now,        \* datetime.now(), in minutes
  out,        \* what the last operation returned, printed or raised
  lastGoal    \* history: for each category set_goal was called for on the
              \* tracker, the hours of the last such call

vars == <<file, tracker, now, out, lastGoal>>

NoCalls == [c \in {} |-> 0]
NoTracker == [live |-> FALSE, data |-> EmptyLedger]
Result(op, err, saved, val) == [op |-> op, err |-> err, saved |-> saved, val |-> val]

\* load_data: the parsed document, an empty ledger when the file is absent,
\* and json's error when the file does not hold a document.
LoadData(f) ==
  IF f.kind = "absent" THEN [err |-> "none", data |-> EmptyLedger]
  ELSE IF f.kind = "json" THEN [err |-> "none", data |-> f.doc]
  ELSE [err |-> "JSONDecodeError", data |-> EmptyLedger]

\* save_data: open(filename, 'w') truncates the file, then json.dump is
\* called with the keyword incident=2, which JSONEncoder rejects.
SaveDataFile(f, data) == TruncatedFile
SaveDataErr == "TypeError"

Init ==
  /\ file \in InitFiles
  /\ tracker = NoTracker
  /\ now = FirstInstant
  /\ out = Result("init", "none", FALSE, {})
  /\ lastGoal = NoCalls

\* The wall clock advances.
Tick ==
  /\ \E t \in Instants : t > now /\ now' = t
  /\ UNCHANGED <<file, tracker, out, lastGoal>>

\* DeepWorkTracker(): __init__ binds self.data to load_data().
NewTracker ==
  /\ LET r == LoadData(file) IN
       /\ tracker' = IF r.err = "none" THEN [live |-> TRUE, data |-> r.data]
                     ELSE NoTracker
       /\ out' = Result("load_data", r.err, FALSE, {})
  /\ lastGoal' = NoCalls
  /\ UNCHANGED <<file, now>>

SaveData ==
  /\ tracker.live
  /\ file' = SaveDataFile(file, tracker.data)
  /\ out' = Result("save_data", SaveDataErr, TRUE, {})
  /\ UNCHANGED <<tracker, now, lastGoal>>

\* start_session: returns (start_time, category); the ledger is not touched.
StartSession(category) ==
  /\ tracker.live
  /\ out' = Result("start_session", "none", FALSE, {<<IsoFormat(now), category>>})
  /\ UNCHANGED <<file, tracker, now, lastGoal>>

\* end_session: fromisoformat(start_time) raises ValueError on a string it
\* cannot parse; otherwise the session is appended and save_data is called.
NewSession(start_time, category, description) ==
  [start_time |-> start_time,
   end_time |-> IsoFormat(now),
   duration |-> Duration(FromIsoFormat(start_time), FromIsoFormat(IsoFormat(now))),
   category |-> category,
   description |-> description]

EndSession(start_time, category, description) ==
  /\ tracker.live
  /\ Len(tracker.data.sessions) < MaxSessions
  /\ IF ~Parseable(start_time)
     THEN /\ out' = Result("end_session", "ValueError", FALSE, {})
          /\ UNCHANGED <<file, tracker>>
     ELSE /\ tracker' = [tracker EXCEPT !.data.sessions =
                           Append(@, NewSession(start_time, category, description))]
          /\ file' = SaveDataFile(file, tracker'.data)
          /\ out' = Result("end_session", SaveDataErr, TRUE, {})
  /\ UNCHANGED <<now, lastGoal>>

\* set_goal: the entry is stored, then save_data is called.
SetGoal(category, hours_per_week) ==
  /\ tracker.live
  /\ tracker' = [tracker EXCEPT !.data.goals = DictSet(@, category, hours_per_week)]
  /\ file' = SaveDataFile(file, tracker'.data)
  /\ out' = Result("set_goal", SaveDataErr, TRUE, {})
  /\ lastGoal' = [c \in DOMAIN lastGoal \cup {category} |->
                    IF c = category THEN hours_per_week ELSE lastGoal[c]]
  /\ UNCHANGED now

\* ---- read-only operations ----
RECURSIVE SumDurations(_)
SumDurations(ss) ==
  IF ss = <<>> THEN 0 ELSE ss[1].duration + SumDurations(Tail(ss))

\* get_total_time
GetTotalTimeOf(data) == SumDurations(data.sessions)

\* get_summary: the first date of the period; datetime.min.date() for 'all'
\* is before every date.
MinDate == -1
StartDate(period, t) ==
  IF period = "daily" THEN DateOf(t)
  ELSE IF period = "weekly" THEN DateOf(t) - Weekday(DateOf(t))
  ELSE MinDate

InPeriod(session, start_date) ==
  DateOf(FromIsoFormat(session.start_time)) >= start_date

FilteredSessions(data, period, t) ==
  SelectSeq(data.sessions, LAMBDA s : InPeriod(s, StartDate(period, t)))

OfCategory(ss, c) == SelectSeq(ss, LAMBDA s : s.category = c)

CategoryTime(ss) ==
  {<<c, SumDurations(OfCategory(ss, c))>> :
     c \in {ss[i].category : i \in 1..Len(ss)}}

GetSummaryOf(data, period, t) ==
  LET filtered == FilteredSessions(data, period, t) IN
    [total_time |-> SumDurations(filtered),
     category_time |-> CategoryTime(filtered),
     num_sessions |-> Len(filtered)]

ListSessions ==
  /\ tracker.live
  /\ out' = Result("list_sessions", "none", FALSE, {tracker.data.sessions})
  /\ UNCHANGED <<file, tracker, now, lastGoal>>

GetTotalTime ==
  /\ tracker.live
  /\ out' = Result("get_total_time", "none", FALSE, {GetTotalTimeOf(tracker.data)})
  /\ UNCHANGED <<file, tracker, now, lastGoal>>

GetSummary(period) ==
  /\ tracker.live
  /\ out' = Result("get_summary", "none", FALSE, {GetSummaryOf(tracker.data, period, now)})
  /\ UNCHANGED <<file, tracker, now, lastGoal>>

\* export_to_csv writes the sessions, in ledger order, to another file.
ExportToCsv ==
  /\ tracker.live
  /\ out' = Result("export_to_csv", "none", FALSE, {tracker.data.sessions})
  /\ UNCHANGED <<file, tracker, now, lastGoal>>

\* track_goals: returns after a message when no goal is set; otherwise it
\* takes the weekly summary and then calls goals.item(), which a dict does
\* not have.
TrackGoals ==
  /\ tracker.live
  /\ out' = IF tracker.data.goals = {}
            THEN Result("track_goals", "none", FALSE, {"No goals set"})
            ELSE Result("track_goals", "AttributeError", FALSE, {})
  /\ UNCHANGED <<file, tracker, now, lastGoal>>

\* calculate_productivity_score calls self.summary, which the class does
\* not define.
CalculateProductivityScore ==
  /\ tracker.live
  /\ out' = Result("calculate_productivity_score", "AttributeError", FALSE, {})
  /\ UNCHANGED <<file, tracker, now, lastGoal>>

\* main(): building the parser raises TypeError at the pomodoro argument
\* (keyword defualt=25), before the arguments are parsed, the tracker is
\* constructed or any command is dispatched.  The value records the command
\* line and the time of the invocation.
Main(action, category) ==
  /\ out' = Result("main", "TypeError", FALSE, {<<action, category, now>>})
  /\ UNCHANGED <<file, tracker, now, lastGoal>>

Next ==
  \/ Tick
  \/ NewTracker
  \/ SaveData
  \/ \E c \in Categories : StartSession(c)
  \/ \E s \in StartArgs, c \in Categories, d \in Descriptions : EndSession(s, c, d)
  \/ \E c \in Categories, h \in Hours : SetGoal(c, h)
  \/ ListSessions
  \/ GetTotalTime
  \/ \E p \in Periods : GetSummary(p)
  \/ ExportToCsv
  \/ TrackGoals
  \/ CalculateProductivityScore
  \/ \E a \in Commands : \E c \in CommandArgs(a) : Main(a, c)

Spec == Init /\ [][Next]_vars

\* ---- properties ----
Goals == tracker.data.goals
Sessions == tracker.data.sessions
Persisted(f) == LoadData(f).data.sessions
Loadable(f) == LoadData(f).err = "none"
IsPrefix(a, b) == Len(a) <= Len(b) /\ SubSeq(b, 1, Len(a)) = a

\* main, the test of the `end` branch: the last session has no end_time.
HasPending(data) ==
  /\ data.sessions # <<>>
  /\ "end_time" \notin DOMAIN data.sessions[Len(data.sessions)]

\* C1: the commands `start <category>` and then `end` leave the persisted
\* ledger with exactly one more session, appended last, that carries the
\* category and the start time of `start`.
C1_StartThenEndPersistsOneSession ==
  [][\A c \in Categories, t \in Instants :
       (/\ out.op = "main"
        /\ out.val = {<<"start", c, t>>}
        /\ Loadable(file)
        /\ Main("end", NoArg))
       => /\ Loadable(file')
          /\ Len(Persisted(file')) = Len(Persisted(file)) + 1
          /\ IsPrefix(Persisted(file), Persisted(file'))
          /\ Persisted(file')[Len(Persisted(file'))].category = c
          /\ Persisted(file')[Len(Persisted(file'))].start_time = IsoFormat(t)]_vars

\* C2: `end` with no pending session reports NoActiveSession and leaves the
\* ledger unchanged, in memory and in the file.
C2_EndWithoutPendingReports ==
  [][(/\ Loadable(file)
      /\ ~HasPending(LoadData(file).data)
      /\ Main("end", NoArg))
     => /\ out'.err = "NoActiveSession"
        /\ file' = file
        /\ tracker' = tracker]_vars

\* The parts of C3.
C3_OneEntryPerCategory ==
  \A p \in Goals : \A q \in Goals : p[1] = q[1] => p = q
C3_LastWriteKept ==
  \A c \in DOMAIN lastGoal : <<c, lastGoal[c]>> \in Goals
C3_OthersKept ==
  \A c \in Categories, h \in Hours :
    SetGoal(c, h) =>
      {p \in Goals : p[1] # c} = {p \in tracker'.data.goals : p[1] # c}
\* C3: the goals mapping has at most one entry per category, the entry of a
\* category is the hours of the last set_goal call for it, and a set_goal
\* call leaves the entries of the other categories as they were.
C3_SetGoalLastWriteWins ==
  /\ [](tracker.live => C3_OneEntryPerCategory /\ C3_LastWriteKept)
  /\ [][C3_OthersKept]_vars

\* C3 witness: set_goal has overwritten the goal loaded from the file and
\* has set a goal for the other category.
C3_Witness ==
  /\ tracker.live
  /\ Sessions # <<>>
  /\ Sessions[1] = OldSession
  /\ DOMAIN lastGoal = Categories
  /\ lastGoal["focus"] = 0
  /\ lastGoal["break"] = 2
  /\ Goals = {<<"focus", 0>>, <<"break", 2>>}

\* C4: after an operation that saved the ledger, loading the file gives the
\* ledger that was saved.
C4_SaveLoadRoundTrip ==
  (tracker.live /\ out.saved) =>
    /\ Loadable(file)
    /\ LoadData(file).data = tracker.data

\* The errors that count as the InvalidSession signal: fromisoformat's
\* ValueError is one.
InvalidSessionSignals == {"InvalidSession", "ValueError"}

\* C5: end_session called with a start_time that is unparseable or later
\* than the current time signals InvalidSession and appends and persists
\* nothing; otherwise the appended session has end_time >= start_time and a
\* non-negative duration.
C5_EndSessionRejectsNegative ==
  [][\A s \in StartArgs, c \in Categories, d \in Descriptions :
       EndSession(s, c, d) =>
         IF ~Parseable(s) \/ FromIsoFormat(s) > now
         THEN /\ out'.err \in InvalidSessionSignals
              /\ tracker' = tracker
              /\ file' = file
         ELSE /\ Len(tracker'.data.sessions) = Len(Sessions) + 1
              /\ LET new == tracker'.data.sessions[Len(Sessions) + 1] IN
                   /\ FromIsoFormat(new.end_time) >= FromIsoFormat(new.start_time)
                   /\ new.duration >= 0]_vars

\* C6: for every category, the weekly category_time is at most the one of
\* the summary of all sessions (0 where the category is absent).
C6_WeeklyAtMostAll ==
  tracker.live =>
    LET weekly == GetSummaryOf(tracker.data, "weekly", now).category_time
        all == GetSummaryOf(tracker.data, "all", now).category_time
    IN \A c \in Categories : DictGet(weekly, c, 0) <= DictGet(all, c, 0)

\* The report track_goals is to give: per goal, the weekly hours of its
\* category and the progress in percent.
ProgressPct(actual, goal) == IF goal > 0 THEN (100 * actual) \div goal ELSE 0
GoalReport(data, t) ==
  LET weekly == GetSummaryOf(data, "weekly", t).category_time IN
    {<<p[1], p[2], DictGet(weekly, p[1], 0),
       ProgressPct(DictGet(weekly, p[1], 0), p[2] * 100)>> : p \in data.goals}

\* C7: track_goals completes without an error and reports, for every goal,
\* the weekly hours of its category and 100 x actual / goal (0 for a goal
\* of 0 hours).
C7_TrackGoalsReports ==
  [][TrackGoals =>
       /\ out'.err = "none"
       /\ Goals # {} => out'.val = GoalReport(tracker.data, now)]_vars

\* C8: when save_data fails, loading the file still gives the ledger that
\* was persisted before.
C8_FailedSaveKeepsFile ==
  [][(out'.saved /\ out'.err # "none") => LoadData(file') = LoadData(file)]_vars

\* C9: the persisted sessions only grow at the end, and only by end_session.
C9_PersistedAppendOnly ==
  [][Loadable(file) =>
       /\ Loadable(file')
       /\ IsPrefix(Persisted(file), Persisted(file'))
       /\ Persisted(file') # Persisted(file) => out'.op = "end_session"]_vars

\* The sessions whose start date is today.
StartedToday(data, t) ==
  SelectSeq(data.sessions,
            LAMBDA s : DateOf(FromIsoFormat(s.start_time)) = DateOf(t))

\* C10: the daily summary counts exactly the sessions whose start date is
\* today: its total_time, category_time and num_sessions are those of the
\* sessions started today.
C10_DailyIsToday ==
  tracker.live =>
    LET daily == GetSummaryOf(tracker.data, "daily", now)
        today == StartedToday(tracker.data, now)
    IN /\ daily.num_sessions = Len(today)
       /\ daily.total_time = SumDurations(today)
       /\ daily.category_time = CategoryTime(today)
====
